---- MODULE Spec2Model ----
(***************************************************************************)
(* Model of scrapes/merge_ufc_props.py: the name normaliser (clean_name),  *)
(* the variant generator (get_name_variants), the fuzzy matcher            *)
(* (find_best_match), the distance-odds mapper (map_distance_odds) and the *)
(* reconciliation pipeline (merge_ufc_props).                              *)
(*                                                                         *)
(* A Python str is a sequence of one-character strings.  A value that is   *)
(* not a str (None, a number) is a one-element sequence whose element is   *)
(* not a character, so that every name cell has the same TLA+ type.        *)
(***************************************************************************)
EXTENDS Integers, Sequences, FiniteSets, TLC

VARIABLES
    pc,                 \* position in the running function
    call,               \* the call under way: function name and arguments
    ret,                \* the value returned by the call
    df_strikes,         \* source A, primary-market relation
    df_distance_data,   \* source A, secondary-market relation
    pp_fetch,           \* what scrape_prizepicks_ufc does: a relation or an exception
    df_pp,              \* source B relation, with the columns merge adds
    df_dk,              \* concatenated source A
    df_dk_filtered,     \* primary bucket
    ordered_dk_fighters,\* captured source-A ordering
    df_distance_yes,    \* secondary bucket
    merged,             \* the joined relation
    result              \* what merge_ufc_props returns or raises

vars == <<pc, call, ret, df_strikes, df_distance_data, pp_fetch, df_pp, df_dk,
          df_dk_filtered, ordered_dk_fighters, df_distance_yes, merged, result>>

mergeVars == <<df_strikes, df_distance_data, pp_fetch, df_pp, df_dk,
               df_dk_filtered, ordered_dk_fighters, df_distance_yes, merged, result>>

(***************************************************************************)
(* Bounds of the model.                                                    *)
(***************************************************************************)
MaxLen == 4          \* longest raw string given to clean_name

(***************************************************************************)
(* Python values.                                                          *)
(***************************************************************************)
None == <<"None">>
Num123 == <<"123">>

Lowercase == {"a","b","c","d","e","f","g","h","i","j","k","l","m",
              "n","o","p","q","r","s","t","u","v","w","x","y","z"}
Uppercase == {"A","B","C","D","E","F","G","H","I","J","K","L","M",
              "N","O","P","Q","R","S","T","U","V","W","X","Y","Z"}
Chars == Lowercase \cup Uppercase \cup {" ", "-", "."}

\* isinstance(x, str)
IsStr(x) == \A i \in 1..Len(x) : x[i] \in Chars

\* Characters in code-point order, for str comparison.
CharOrder == <<" ", "-", ".",
               "A","B","C","D","E","F","G","H","I","J","K","L","M",
               "N","O","P","Q","R","S","T","U","V","W","X","Y","Z",
               "a","b","c","d","e","f","g","h","i","j","k","l","m",
               "n","o","p","q","r","s","t","u","v","w","x","y","z">>

Ord(c) == CHOOSE i \in 1..Len(CharOrder) : CharOrder[i] = c

\* str.lower() on one character
LowerChar(c) == IF c \in Uppercase THEN CharOrder[Ord(c) + 26] ELSE c

\* str.lower()
Lower(s) == [i \in 1..Len(s) |-> LowerChar(s[i])]

\* The least and the greatest element of a non-empty set of integers
MinOf(S) == CHOOSE x \in S : \A y \in S : x <= y

MaxOf(S) == CHOOSE x \in S : \A y \in S : x >= y

\* Python evaluates an assignment before the statement that follows it: x is
\* evaluated, then e.
Strict(x, e) == IF x = x THEN e ELSE e

\* for x in s: acc = Op(acc, x).  The elements are taken in order; the work is
\* split in halves to keep the evaluation shallow.
RECURSIVE FoldLeft(_, _, _)
FoldLeft(Op(_, _), acc, s) ==
    IF Len(s) = 0 THEN acc
    ELSE IF Len(s) = 1 THEN Op(acc, s[1])
    ELSE LET h == Len(s) \div 2
             mid == FoldLeft(Op, acc, SubSeq(s, 1, h))
         IN Strict(mid, FoldLeft(Op, mid, SubSeq(s, h + 1, Len(s))))

\* The indices at which old occurs in s
Occurrences(s, old) ==
    {i \in 1..(Len(s) - Len(old) + 1) : SubSeq(s, i, i + Len(old) - 1) = old}

\* s.replace(old, new): non-overlapping occurrences, leftmost first, one pass
\* (the text that replaces an occurrence is not searched again)
RECURSIVE Replace(_, _, _)
Replace(s, old, new) ==
    IF Occurrences(s, old) = {} THEN s
    ELSE LET i == MinOf(Occurrences(s, old))
         IN SubSeq(s, 1, i - 1) \o new
            \o Replace(SubSeq(s, i + Len(old), Len(s)), old, new)

\* s.strip()
Strip(s) ==
    LET solid == {i \in 1..Len(s) : s[i] # " "}
    IN IF solid = {} THEN <<>> ELSE SubSeq(s, MinOf(solid), MaxOf(solid))

\* s.split(): the maximal runs of non-whitespace characters, in order
RECURSIVE Split(_)
Split(s) ==
    LET solid == {i \in 1..Len(s) : s[i] # " "}
    IN IF solid = {} THEN <<>>
       ELSE LET first == MinOf(solid)
                blank == {i \in first..Len(s) : s[i] = " "}
                stop == IF blank = {} THEN Len(s) + 1 ELSE MinOf(blank)
            IN <<SubSeq(s, first, stop - 1)>> \o Split(SubSeq(s, stop, Len(s)))

\* ' '.join(parts)
RECURSIVE Join(_)
Join(parts) ==
    IF parts = <<>> THEN <<>>
    ELSE IF Len(parts) = 1 THEN parts[1]
    ELSE parts[1] \o <<" ">> \o Join(Tail(parts))

(***************************************************************************)
(* clean_name                                                              *)
(***************************************************************************)
\* The replacements with the period turned into a space, as the hyphen is
replacements_period_space == <<
    <<<<"j","r",".">>, <<>>>>,
    <<<<"j","r">>, <<>>>>,
    <<<<"i","i","i">>, <<>>>>,
    <<<<"i","i">>, <<>>>>,
    <<<<"t","h","e">>, <<>>>>,
    <<<<"-">>, <<" ">>>>,
    <<<<".">>, <<" ">>>>
    >>

\* The .replace(old, new) calls of lines 27-33, in order
replacements == <<
    <<<<"j","r",".">>, <<>>>>,
    <<<<"j","r">>, <<>>>>,
    <<<<"i","i","i">>, <<>>>>,
    <<<<"i","i">>, <<>>>>,
    <<<<"t","h","e">>, <<>>>>,
    <<<<"-">>, <<" ">>>>,
    <<<<".">>, <<>>>>
    >>

\* The chained calls of lines 25-35 on a str
clean_chain(name) ==
    Strip(FoldLeft(LAMBDA s, r : Replace(s, r[1], r[2]), Lower(name), replacements))

clean_name(name) ==
    IF ~IsStr(name) THEN <<>>
    ELSE Join(Split(clean_chain(name)))

(***************************************************************************)
(* get_name_variants                                                       *)
(***************************************************************************)
s_daniel == <<"d","a","n","i","e","l">>
s_dan == <<"d","a","n">>
s_anthony == <<"a","n","t","h","o","n","y">>
s_tony == <<"t","o","n","y">>
s_william == <<"w","i","l","l","i","a","m">>
s_will == <<"w","i","l","l">>
s_billy == <<"b","i","l","l","y">>
s_robert == <<"r","o","b","e","r","t">>
s_rob == <<"r","o","b">>
s_bobby == <<"b","o","b","b","y">>
s_james == <<"j","a","m","e","s">>
s_jim == <<"j","i","m">>
s_jimmy == <<"j","i","m","m","y">>
s_joseph == <<"j","o","s","e","p","h">>
s_joe == <<"j","o","e">>
s_michael == <<"m","i","c","h","a","e","l">>
s_mike == <<"m","i","k","e">>
s_christopher == <<"c","h","r","i","s","t","o","p","h","e","r">>
s_chris == <<"c","h","r","i","s">>
s_jonathan == <<"j","o","n","a","t","h","a","n">>
s_jon == <<"j","o","n">>

\* The dict display of lines 65-87, one <<key, value>> per entry, in source order.
nickname_items == <<
    <<s_daniel, s_dan>>,
    <<s_dan, s_daniel>>,
    <<s_anthony, s_tony>>,
    <<s_tony, s_anthony>>,
    <<s_william, s_will>>,
    <<s_will, s_william>>,
    <<s_william, s_billy>>,
    <<s_robert, s_rob>>,
    <<s_rob, s_robert>>,
    <<s_robert, s_bobby>>,
    <<s_james, s_jim>>,
    <<s_jim, s_james>>,
    <<s_james, s_jimmy>>,
    <<s_joseph, s_joe>>,
    <<s_joe, s_joseph>>,
    <<s_michael, s_mike>>,
    <<s_mike, s_michael>>,
    <<s_christopher, s_chris>>,
    <<s_chris, s_christopher>>,
    <<s_jonathan, s_jon>>,
    <<s_jon, s_jonathan>>
    >>

\* k in d, for the dict a display with these items builds
DictHas(items, k) == \E i \in 1..Len(items) : items[i][1] = k

\* d[k]: a later entry of the display with the same key replaces an earlier one
DictGet(items, k) ==
    LET last == CHOOSE i \in 1..Len(items) :
                    /\ items[i][1] = k
                    /\ \A j \in (i + 1)..Len(items) : items[j][1] # k
    IN items[last][2]

nickname_map_has(k) == DictHas(nickname_items, k)

nickname_map(k) == DictGet(nickname_items, k)

\* "Remove duplicates while preserving order" (lines 102-108)
RECURSIVE Unique(_, _)
Unique(vs, acc) ==
    IF vs = <<>> THEN acc
    ELSE IF \E i \in 1..Len(acc) : acc[i] = Head(vs)
         THEN Unique(Tail(vs), acc)
         ELSE Unique(Tail(vs), Append(acc, Head(vs)))

get_name_variants(name) ==
    IF ~IsStr(name) THEN <<name>>
    ELSE
    LET cleaned == clean_name(name)
        parts == Split(cleaned)
        n == Len(parts)
        v1 == <<cleaned>>
        v2 == IF n >= 2
              THEN Append(v1, parts[1] \o <<" ">> \o parts[n])
                   \o (IF Len(parts[n]) > 4 THEN <<parts[n]>> ELSE <<>>)
              ELSE v1
        v3 == IF n >= 1 /\ nickname_map_has(parts[1])
              THEN LET nickname == nickname_map(parts[1])
                   IN Append(v2, Join(<<nickname>> \o Tail(parts)))
                      \o (IF n >= 2 THEN <<nickname \o <<" ">> \o parts[n]>> ELSE <<>>)
              ELSE v2
    IN Unique(v3, <<>>)

(***************************************************************************)
(* thefuzz: utils.full_process, fuzz.ratio, fuzz.token_sort_ratio,         *)
(* fuzz.token_set_ratio and process.extractOne, as find_best_match uses    *)
(* them (lines 6, 128, 133).  Scores are the integers 0..100 the scorers   *)
(* return.                                                                 *)
(***************************************************************************)
Max2(a, b) == IF a >= b THEN a ELSE b

\* int(round(100 * num / den)), Python's round: a half goes to the even integer
RoundPct(num, den) ==
    LET q == (100 * num) \div den
        r == (100 * num) % den
    IN IF 2 * r < den THEN q
       ELSE IF 2 * r > den THEN q + 1
       ELSE IF q % 2 = 0 THEN q ELSE q + 1

\* One row of the longest-common-subsequence table after reading character c:
\* entry j+1 is the length for the prefix read so far and b[1..j].  Either c is
\* left out (prev[j+1]) or it is paired with an equal b[k], k <= j (prev[k] + 1).
LcsRow(prev, c, b) ==
    SubSeq([j1 \in 1..(Len(b) + 1) |->
               MaxOf({prev[j1]} \cup
                     {prev[k] + 1 : k \in {x \in 1..(j1 - 1) : b[x] = c}})],
           1, Len(b) + 1)

\* The length of a longest common subsequence: the last entry of the last row
LcsLen(a, b) ==
    FoldLeft(LAMBDA row, c : LcsRow(row, c, b),
             [j \in 1..(Len(b) + 1) |-> 0], a)[Len(b) + 1]

\* Insertions plus deletions turning a into b
IndelDistance(a, b) == Len(a) + Len(b) - 2 * LcsLen(a, b)

\* 100 * (1 - dist / lensum), 100 when there is nothing to compare
NormSim(dist, lensum) ==
    IF lensum = 0 THEN 100 ELSE RoundPct(lensum - dist, lensum)

\* fuzz.ratio on processed strings
ratio(s1, s2) == NormSim(IndelDistance(s1, s2), Len(s1) + Len(s2))

\* a < b as Python compares str
StrLess(a, b) ==
    LET n == IF Len(a) < Len(b) THEN Len(a) ELSE Len(b)
        diff == {i \in 1..n : a[i] # b[i]}
    IN IF diff = {} THEN Len(a) < Len(b)
       ELSE Ord(a[MinOf(diff)]) < Ord(b[MinOf(diff)])

\* sorted(S) for a set of str
RECURSIVE SortedSet(_)
SortedSet(S) ==
    IF S = {} THEN <<>>
    ELSE LET m == CHOOSE x \in S : \A y \in S \ {x} : StrLess(x, y)
         IN <<m>> \o SortedSet(S \ {m})

\* sorted(parts) for a list of str
RECURSIVE InsertSorted(_, _)
InsertSorted(sorted, x) ==
    IF sorted = <<>> THEN <<x>>
    ELSE IF StrLess(x, Head(sorted)) THEN <<x>> \o sorted
    ELSE <<Head(sorted)>> \o InsertSorted(Tail(sorted), x)

RECURSIVE SortedList(_)
SortedList(parts) ==
    IF parts = <<>> THEN <<>>
    ELSE InsertSorted(SortedList(SubSeq(parts, 1, Len(parts) - 1)), parts[Len(parts)])

SeqToSet(s) == {s[i] : i \in 1..Len(s)}

\* fuzz.token_sort_ratio on processed strings
token_sort_ratio(s1, s2) ==
    ratio(Join(SortedList(Split(s1))), Join(SortedList(Split(s2))))

\* fuzz.token_set_ratio on processed strings
token_set_ratio(s1, s2) ==
    LET tokens_a == SeqToSet(Split(s1))
        tokens_b == SeqToSet(Split(s2))
        intersect == tokens_a \cap tokens_b
        diff_ab == tokens_a \ tokens_b
        diff_ba == tokens_b \ tokens_a
        diff_ab_joined == Join(SortedSet(diff_ab))
        diff_ba_joined == Join(SortedSet(diff_ba))
        ab_len == Len(diff_ab_joined)
        ba_len == Len(diff_ba_joined)
        sect_len == Len(Join(SortedSet(intersect)))
        sep == IF sect_len # 0 THEN 1 ELSE 0
        sect_ab_len == sect_len + sep + ab_len
        sect_ba_len == sect_len + sep + ba_len
        res == NormSim(IndelDistance(diff_ab_joined, diff_ba_joined),
                       sect_ab_len + sect_ba_len)
        sect_ab_ratio == NormSim(sep + ab_len, sect_len + sect_ab_len)
        sect_ba_ratio == NormSim(sep + ba_len, sect_len + sect_ba_len)
    IN IF tokens_a = {} \/ tokens_b = {} THEN 0
       ELSE IF intersect # {} /\ (diff_ab = {} \/ diff_ba = {}) THEN 100
       ELSE IF sect_len = 0 THEN res
       ELSE Max2(res, Max2(sect_ab_ratio, sect_ba_ratio))

\* utils.full_process: every character that is neither a letter nor a digit
\* becomes a space, then lower case, then strip
full_process(s) ==
    Strip(Lower([i \in 1..Len(s) |->
                    IF s[i] \in Lowercase \cup Uppercase THEN s[i] ELSE " "]))

\* scorers = [fuzz.token_sort_ratio, fuzz.token_set_ratio, fuzz.ratio] (line 128)
scorers == <<"token_sort_ratio", "token_set_ratio", "ratio">>

\* scorer(variant, choice), both processed as process.extractOne does
Score(scorer, variant, choice) ==
    LET q == full_process(variant)
        c == full_process(choice)
    IN CASE scorer = "token_sort_ratio" -> token_sort_ratio(q, c)
         [] scorer = "token_set_ratio" -> token_set_ratio(q, c)
         [] scorer = "ratio" -> ratio(q, c)

NoMatch == [choice |-> None, score |-> 0, found |-> FALSE]

\* extractOne keeping the last of the choices with the highest score
better_choice_last(best, choice, s) ==
    IF ~best.found \/ s >= best.score
    THEN [choice |-> choice, score |-> s, found |-> TRUE]
    ELSE best

\* process.extractOne keeps a choice whose score is higher than that of the
\* choices before it.
better_choice(best, choice, s) ==
    IF ~best.found \/ s > best.score
    THEN [choice |-> choice, score |-> s, found |-> TRUE]
    ELSE best

\* process.extractOne(query, choices, scorer=scorer): the choice with the highest
\* score, the first of them in the order of choices
extractOne(query, choices, scorer) ==
    FoldLeft(LAMBDA best, c : better_choice(best, c, Score(scorer, query, c)),
             NoMatch, choices)

(***************************************************************************)
(* find_best_match                                                         *)
(***************************************************************************)
\* Lines 134-136: the update of best_score and best_match after one extractOne.
better_match(match, best) ==
    IF match.found /\ match.score > best.score
    THEN [choice |-> match.choice, score |-> match.score, found |-> TRUE]
    ELSE best

\* The (variant, scorer) pairs in the order the nested loops of lines 130-131
\* visit them.
loop_order(name_variants) ==
    [i \in 1..(Len(name_variants) * Len(scorers)) |->
        <<name_variants[((i - 1) \div Len(scorers)) + 1],
          scorers[((i - 1) % Len(scorers)) + 1]>>]

\* Lines 124-138: best_match and best_score after the loops.
best_of_loops(name_variants, choices_list) ==
    FoldLeft(LAMBDA best, p : better_match(extractOne(p[1], choices_list, p[2]), best),
             NoMatch, loop_order(name_variants))

\* bool(best_match): None and the empty str are false
Truthy(s) == s # None /\ s # <<>>

\* choices_list is a list of str, or NoChoices for None
NoChoices == <<None>>

find_best_match(name, choices_list, score_cutoff) ==
    IF choices_list = NoChoices \/ Len(choices_list) = 0 THEN None
    ELSE LET best == best_of_loops(get_name_variants(name), choices_list)
         IN IF Truthy(best.choice) /\ best.score >= score_cutoff
            THEN best.choice
            ELSE None

(***************************************************************************)
(* Calls of the pure functions, one per behaviour.                         *)
(***************************************************************************)
NoCall == [fn |-> "none", arg |-> <<>>]
NoRet == [set |-> FALSE, val |-> <<>>, again |-> <<>>]

\* The characters the raw names given to clean_name are built from.
CleanAlphabet == {"J", "j", "r", "i", "t", "h", "e", "a", ".", "-", " "}

RECURSIVE StringsUpTo(_, _)
StringsUpTo(A, n) ==
    IF n = 0 THEN {<<>>}
    ELSE LET S == StringsUpTo(A, n - 1)
         IN S \cup {Append(s, c) : s \in {t \in S : Len(t) = n - 1}, c \in A}

Idle ==
    /\ df_strikes = <<>> /\ df_distance_data = <<>> /\ pp_fetch = <<>>
    /\ df_pp = <<>> /\ df_dk = <<>> /\ df_dk_filtered = <<>>
    /\ ordered_dk_fighters = <<>> /\ df_distance_yes = <<>>
    /\ merged = <<>> /\ result = <<>>

InitClean ==
    /\ pc = "call"
    /\ call \in {[fn |-> "clean_name", arg |-> s] :
                    s \in StringsUpTo(CleanAlphabet, MaxLen) \cup {None, Num123}}
    /\ ret = NoRet
    /\ Idle

\* clean_name(x), and clean_name applied to its own result
CallCleanName ==
    /\ pc = "call" /\ call.fn = "clean_name"
    /\ ret' = [set |-> TRUE, val |-> clean_name(call.arg),
               again |-> clean_name(clean_name(call.arg))]
    /\ pc' = "returned"
    /\ UNCHANGED <<call, mergeVars>>

NextClean == CallCleanName

SpecClean == InitClean /\ [][NextClean]_vars

(***************************************************************************)
(* get_name_variants, called on names whose first token is or is not a key *)
(* of the nickname table.                                                  *)
(***************************************************************************)
MaxRest == 2         \* most tokens after the first in a name given to get_name_variants

s_zed == <<"z","e","d">>
s_lee == <<"l","e","e">>
s_van == <<"v","a","n">>
s_jones == <<"j","o","n","e","s">>

FirstTokens == {nickname_items[i][1] : i \in 1..Len(nickname_items)}
               \cup {nickname_items[i][2] : i \in 1..Len(nickname_items)}
               \cup {s_zed}

RestTokens == {s_lee, s_van, s_jones}

RECURSIVE SeqsUpTo(_, _)
SeqsUpTo(S, n) ==
    IF n = 0 THEN {<<>>}
    ELSE LET T == SeqsUpTo(S, n - 1)
         IN T \cup {Append(t, x) : t \in {u \in T : Len(u) = n - 1}, x \in S}

VariantInputs ==
    {Join(<<f>> \o rest) : f \in FirstTokens, rest \in SeqsUpTo(RestTokens, MaxRest)}
    \cup {None}

InitVariants ==
    /\ pc = "call"
    /\ call \in {[fn |-> "get_name_variants", arg |-> s] : s \in VariantInputs}
    /\ ret = NoRet
    /\ Idle

CallGetNameVariants ==
    /\ pc = "call" /\ call.fn = "get_name_variants"
    /\ ret' = [set |-> TRUE, val |-> get_name_variants(call.arg), again |-> <<>>]
    /\ pc' = "returned"
    /\ UNCHANGED <<call, mergeVars>>

NextVariants == CallGetNameVariants

SpecVariants == InitVariants /\ [][NextVariants]_vars

(***************************************************************************)
(* find_best_match, called with a name, a pool and a cutoff.               *)
(***************************************************************************)
MaxPool == 3         \* most candidates in a pool given to find_best_match

DefaultCutoff == 70

s_jon_jones == <<"j","o","n"," ","j","o","n","e","s">>
s_jonathan_jones == <<"j","o","n","a","t","h","a","n"," ","j","o","n","e","s">>
s_jones_jon == <<"j","o","n","e","s"," ","j","o","n">>
s_al_jones == <<"a","l"," ","j","o","n","e","s">>
s_al_bo == <<"a","l"," ","b","o">>
s_al_bow == <<"a","l"," ","b","o","w">>
s_qq == <<"q","q">>

MatchNames == {s_jon_jones, s_jonathan_jones, s_jones_jon, s_jones, s_al_bo, s_zed, <<>>}

MatchPool == {s_jon_jones, s_al_jones, s_al_bo, s_al_bow, s_qq}

Cutoffs == {0, DefaultCutoff, 100}

\* Lists of distinct candidates
DistinctSeqs(S, n) ==
    {s \in SeqsUpTo(S, n) : \A i, j \in 1..Len(s) : i # j => s[i] # s[j]}

InitMatch ==
    /\ pc = "call"
    /\ call \in {[fn |-> "find_best_match",
                  arg |-> [name |-> n, choices_list |-> p, score_cutoff |-> c]] :
                    n \in MatchNames,
                    p \in DistinctSeqs(MatchPool, MaxPool) \cup {NoChoices},
                    c \in Cutoffs}
    /\ ret = NoRet
    /\ Idle

CallFindBestMatch ==
    /\ pc = "call" /\ call.fn = "find_best_match"
    /\ ret' = [set |-> TRUE,
               val |-> find_best_match(call.arg.name, call.arg.choices_list,
                                       call.arg.score_cutoff),
               again |-> <<>>]
    /\ pc' = "returned"
    /\ UNCHANGED <<call, mergeVars>>

NextMatch == CallFindBestMatch

SpecMatch == InitMatch /\ [][NextMatch]_vars

(***************************************************************************)
(* map_distance_odds                                                       *)
(***************************************************************************)
\* Cells of the numeric columns: a number, None, a text that is no number, and
\* the NaN pandas puts where there is no value.
Num(n) == [k |-> "num", n |-> n]
NoneCell == [k |-> "none", n |-> 0]
TextCell == [k |-> "text", n |-> 0]
NaN == [k |-> "nan", n |-> 0]

\* The NaN of a column of names
NaNStr == <<"NaN">>

\* The functions passed as name_cleaner (line 305 passes clean_name)
call_name_cleaner(name_cleaner, x) ==
    IF name_cleaner = "clean_name" THEN clean_name(x) ELSE x

\* Line 155 with >= for >: of equal scores the last row wins
distance_step_last(best, row, fighter_parts, name_cleaner) ==
    LET fight_parts == SeqToSet(Split(call_name_cleaner(name_cleaner, row.fight)))
        match_score == Cardinality(fighter_parts \cap fight_parts)
    IN IF match_score >= best.best_score
       THEN [best_score |-> match_score, found_odds |-> row.odds]
       ELSE best

\* Lines 152-157: one row of distance_df against the best so far.
distance_step(best, row, fighter_parts, name_cleaner) ==
    LET fight_parts == SeqToSet(Split(call_name_cleaner(name_cleaner, row.fight)))
        match_score == Cardinality(fighter_parts \cap fight_parts)
    IN IF match_score > best.best_score
       THEN [best_score |-> match_score, found_odds |-> row.odds]
       ELSE best

map_distance_odds(fighter_name, distance_df, name_cleaner) ==
    LET fighter_parts == SeqToSet(Split(call_name_cleaner(name_cleaner, fighter_name)))
    IN FoldLeft(LAMBDA best, row : distance_step(best, row, fighter_parts, name_cleaner),
                [best_score |-> 0, found_odds |-> NoneCell],
                distance_df.rows).found_odds

(***************************************************************************)
(* pandas, as merge_ufc_props uses it.  A DataFrame is its column labels   *)
(* and its rows; a row holds a cell for every column the model reads.      *)
(***************************************************************************)
Frame(columns, rows) == [columns |-> columns, rows |-> rows]

NoFrame == Frame(<<>>, <<>>)

\* df.empty
IsEmpty(df) == Len(df.rows) = 0 \/ Len(df.columns) = 0

HasColumn(df, c) == \E i \in 1..Len(df.columns) : df.columns[i] = c

\* drop_duplicates(keep='last'): the last row for each value of the key
DropDuplicatesKeepLast(rows, keys) ==
    LET kept == SelectSeq([i \in 1..Len(rows) |-> i],
                          LAMBDA i : \A j \in (i + 1)..Len(rows) : keys[j] # keys[i])
    IN [k \in 1..Len(kept) |-> rows[kept[k]]]

\* drop_duplicates: the first row for each value of the key; keys[i] is the
\* key of rows[i]
DropDuplicates(rows, keys) ==
    LET kept == SelectSeq([i \in 1..Len(rows) |-> i],
                          LAMBDA i : \A j \in 1..(i - 1) : keys[j] # keys[i])
    IN [k \in 1..Len(kept) |-> rows[kept[k]]]

\* pd.concat([a, b], ignore_index=True): the rows of a, then those of b; the
\* columns of a, then the columns only b has
Concat(a, b) ==
    Frame(a.columns \o SelectSeq(b.columns, LAMBDA c : ~HasColumn(a, c)),
          a.rows \o b.rows)

\* pd.to_numeric(cell, errors='coerce')
to_numeric(cell) == IF cell.k = "num" THEN cell ELSE NaN

\* pd.notna
notna(cell) == cell.k = "num"

\* The columns merge_ufc_props returns (lines 182-186, 223-227, 331-335)
final_cols == <<"fighter", "PP Line", "DK Line", "Difference (PP-DK)",
                "Best Bet (DK)", "Going Distance", "Actual", "Between Lines",
                "PP Bet Correct", "DK Bet Correct">>

\* Columns of the relation scrape_prizepicks_ufc returns (scrape_mma_pp.py)
pp_columns == <<"Player", "Stat", "Line", "Start Time", "Odds Type">>

\* Columns of the relations scrape_draftkings_ufc_markets returns
strikes_columns == <<"fighter", "market_type", "label", "line", "odds">>

distance_columns == <<"fight", "market_type", "label", "odds">>

\* str.lower() of a label
LabelLower(l) ==
    CASE l = "Over" -> "over" [] l = "Under" -> "under"
      [] l = "Yes" -> "yes" [] l = "No" -> "no" [] OTHER -> l

(***************************************************************************)
(* The relations the collaborators hand over.                              *)
(***************************************************************************)
MaxStrikes == 2      \* most rows of the primary-market relation
MaxDistance == 1     \* most rows of the secondary-market relation
MaxPP == 2           \* most rows of the source-B relation

r_Jon_Jones == <<"J","o","n"," ","J","o","n","e","s">>
r_Al_Bo == <<"A","l"," ","B","o">>
r_Jon_dash_Jones == <<"J","o","n","-","J","o","n","e","s">>
r_Jonathan_Jones == <<"J","o","n","a","t","h","a","n"," ","J","o","n","e","s">>
r_fight == <<"J","o","n"," ","J","o","n","e","s"," ","v","s"," ","A","l"," ","B","o">>

DKFighters == {r_Jon_Jones, r_Al_Bo}
PPPlayers == {r_Jon_Jones, r_Jon_dash_Jones, r_Jonathan_Jones, r_Al_Bo}
DKLines == {Num(3), Num(4), NoneCell}
PPLines == {Num(3), Num(5)}

\* parse_strikes (scrape_mma_dk.py lines 53-59): one row per selection
StrikeRows ==
    {[fighter |-> f, fight |-> NaNStr, market_type |-> "Significant Strikes O/U",
      label |-> "Over", line |-> l, odds |-> Num(-110)] : f \in DKFighters, l \in DKLines}
    \cup
    {[fighter |-> f, fight |-> NaNStr, market_type |-> "Significant Strikes O/U",
      label |-> "Under", line |-> Num(3), odds |-> Num(-110)] : f \in {r_Jon_Jones}}

\* parse_distance (scrape_mma_dk.py lines 90-95)
DistanceRows ==
    {[fighter |-> NaNStr, fight |-> r_fight, market_type |-> "Fight to Go the Distance",
      label |-> l, line |-> NaN, odds |-> Num(-150)] : l \in {"Yes", "No"}}

\* scrape_mma_pp.py lines 56-62
PPRows ==
    {[Player |-> p, Line |-> l] : p \in PPPlayers, l \in PPLines}
    \cup {[Player |-> r_Al_Bo, Line |-> TextCell]}

\* pd.DataFrame(rows): without rows there are no columns either
FramesOf(RowSet, columns, n) ==
    {Frame(IF rows = <<>> THEN <<>> ELSE columns, rows) : rows \in SeqsUpTo(RowSet, n)}

StrikeFrames == FramesOf(StrikeRows, strikes_columns, MaxStrikes)
DistanceFrames == FramesOf(DistanceRows, distance_columns, MaxDistance)
PPFrames == FramesOf(PPRows, pp_columns, MaxPP) \cup {Frame(pp_columns, <<>>)}

(***************************************************************************)
(* merge_ufc_props, block by block.                                        *)
(***************************************************************************)
NoResult == [kind |-> "none", exc |-> "", frame |-> NoFrame]
Returned(df) == [kind |-> "returned", exc |-> "", frame |-> df]
Raised(e) == [kind |-> "raised", exc |-> e, frame |-> NoFrame]

InitMerge ==
    /\ pc = "start"
    /\ call = NoCall /\ ret = NoRet
    /\ df_strikes = NoFrame /\ df_distance_data = NoFrame
    /\ pp_fetch = "pending"
    /\ df_pp = NoFrame /\ df_dk = NoFrame /\ df_dk_filtered = NoFrame
    /\ ordered_dk_fighters = <<>> /\ df_distance_yes = NoFrame
    /\ merged = NoFrame /\ result = NoResult

\* Lines 164-169: the source-A fetch returns its two relations.
ScrapeDraftKings ==
    /\ pc = "start"
    /\ \E s \in StrikeFrames, d \in DistanceFrames :
          /\ df_strikes' = s
          /\ df_distance_data' = d
    /\ pc' = "scrape_pp"
    /\ UNCHANGED <<call, ret, pp_fetch, df_pp, df_dk, df_dk_filtered,
                   ordered_dk_fighters, df_distance_yes, merged, result>>

\* Lines 170-172: the source-A fetch fails and the exception is raised again.
ScrapeDraftKingsFails ==
    /\ pc = "start"
    /\ result' = Raised("Exception")
    /\ pc' = "done"
    /\ UNCHANGED <<call, ret, df_strikes, df_distance_data, pp_fetch, df_pp, df_dk,
                   df_dk_filtered, ordered_dk_fighters, df_distance_yes, merged>>

\* Lines 174-177: the source-B fetch returns a relation with rows.
ScrapePrizePicks ==
    /\ pc = "scrape_pp"
    /\ \E p \in PPFrames :
          /\ ~IsEmpty(p)
          /\ df_pp' = p
    /\ pp_fetch' = "returned"
    /\ pc' = "concat"
    /\ UNCHANGED <<call, ret, df_strikes, df_distance_data, df_dk, df_dk_filtered,
                   ordered_dk_fighters, df_distance_yes, merged, result>>

\* Lines 180-186: the source-B fetch returns an empty relation.
ScrapePrizePicksEmpty ==
    /\ pc = "scrape_pp"
    /\ \E p \in PPFrames :
          /\ IsEmpty(p)
          /\ df_pp' = p
    /\ pp_fetch' = "returned"
    /\ result' = Returned(Frame(final_cols, <<>>))
    /\ pc' = "done"
    /\ UNCHANGED <<call, ret, df_strikes, df_distance_data, df_dk, df_dk_filtered,
                   ordered_dk_fighters, df_distance_yes, merged>>

\* Lines 187-190: the source-B fetch fails; an empty relation stands in for it.
ScrapePrizePicksFails ==
    /\ pc = "scrape_pp"
    /\ pp_fetch' = "raised"
    /\ df_pp' = Frame(pp_columns, <<>>)
    /\ pc' = "concat"
    /\ UNCHANGED <<call, ret, df_strikes, df_distance_data, df_dk, df_dk_filtered,
                   ordered_dk_fighters, df_distance_yes, merged, result>>

\* Line 196: df_dk.get("fighter", df_dk.get("fight", "")), "" when neither exists
name_column(df) ==
    IF HasColumn(df, "fighter") THEN "fighter"
    ELSE IF HasColumn(df, "fight") THEN "fight"
    ELSE ""

\* Lines 192-197: concatenate source A and add fighter_clean to both sources.
dk_with_clean(strikes, distance) ==
    LET dk == Concat(strikes, distance)
        col == name_column(dk)
    IN Frame(Append(dk.columns, "fighter_clean"),
             [i \in 1..Len(dk.rows) |->
                [fighter |-> dk.rows[i].fighter, fight |-> dk.rows[i].fight,
                 market_type |-> dk.rows[i].market_type, label |-> dk.rows[i].label,
                 line |-> dk.rows[i].line, odds |-> dk.rows[i].odds,
                 fighter_clean |-> clean_name(IF col = "fighter" THEN dk.rows[i].fighter
                                              ELSE dk.rows[i].fight)]])

pp_with_clean(pp) ==
    Frame(Append(pp.columns, "fighter_clean"),
          [i \in 1..Len(pp.rows) |->
             [Player |-> pp.rows[i].Player, Line |-> pp.rows[i].Line,
              fighter_clean |-> clean_name(pp.rows[i].Player),
              dk_match_name |-> None]])

ConcatAndClean ==
    /\ pc = "concat"
    /\ name_column(Concat(df_strikes, df_distance_data)) # ""
    /\ df_dk' = dk_with_clean(df_strikes, df_distance_data)
    /\ df_pp' = pp_with_clean(df_pp)
    /\ pc' = "filter"
    /\ UNCHANGED <<call, ret, df_strikes, df_distance_data, pp_fetch, df_dk_filtered,
                   ordered_dk_fighters, df_distance_yes, merged, result>>

\* Line 196 when source A has neither column: "".apply raises.
ConcatAndCleanRaises ==
    /\ pc = "concat"
    /\ name_column(Concat(df_strikes, df_distance_data)) = ""
    /\ result' = Raised("AttributeError")
    /\ pc' = "done"
    /\ UNCHANGED <<call, ret, df_strikes, df_distance_data, pp_fetch, df_pp, df_dk,
                   df_dk_filtered, ordered_dk_fighters, df_distance_yes, merged>>

\* Lines 200-203: the primary bucket
strikes_over(dk) ==
    Frame(dk.columns,
          SelectSeq(dk.rows, LAMBDA r : /\ r.market_type = "Significant Strikes O/U"
                                        /\ LabelLower(r.label) = "over"))

\* Line 208 and line 230: the distinct fighter_clean values in order of appearance
distinct_names(df) ==
    LET names == [i \in 1..Len(df.rows) |-> df.rows[i].fighter_clean]
    IN DropDuplicates(names, names)

\* Lines 211-217: the secondary bucket, one row per fight
distance_yes(dk) ==
    LET yes == SelectSeq(dk.rows, LAMBDA r : /\ r.market_type = "Fight to Go the Distance"
                                             /\ LabelLower(r.label) = "yes")
    IN Frame(dk.columns, DropDuplicates(yes, [i \in 1..Len(yes) |-> yes[i].fight]))

\* Lines 199-218.  drop_duplicates returns an empty relation as it is, so line
\* 217 runs whether or not the relation has a "fight" column.
FilterBuckets ==
    /\ pc = "filter"
    /\ df_dk_filtered' = strikes_over(df_dk)
    /\ ordered_dk_fighters' = distinct_names(strikes_over(df_dk))
    /\ df_distance_yes' = distance_yes(df_dk)
    /\ pc' = "check_pp"
    /\ UNCHANGED <<call, ret, df_strikes, df_distance_data, pp_fetch, df_pp, df_dk,
                   merged, result>>

\* Lines 221-227: no source-B rows.
ReturnWithoutPrizePicks ==
    /\ pc = "check_pp"
    /\ IsEmpty(df_pp)
    /\ result' = Returned(Frame(final_cols, <<>>))
    /\ pc' = "done"
    /\ UNCHANGED <<call, ret, df_strikes, df_distance_data, pp_fetch, df_pp, df_dk,
                   df_dk_filtered, ordered_dk_fighters, df_distance_yes, merged>>

\* Lines 229-241: dk_match_name of every source-B row
pp_with_matches(pp, dk_filtered) ==
    LET dk_name_choices == distinct_names(dk_filtered)
    IN Frame(Append(pp.columns, "dk_match_name"),
             [i \in 1..Len(pp.rows) |->
                [Player |-> pp.rows[i].Player, Line |-> pp.rows[i].Line,
                 fighter_clean |-> pp.rows[i].fighter_clean,
                 dk_match_name |-> find_best_match(pp.rows[i].fighter_clean,
                                                   dk_name_choices, DefaultCutoff)]])

MatchFighters ==
    /\ pc = "check_pp"
    /\ ~IsEmpty(df_pp)
    /\ df_pp' = pp_with_matches(df_pp, df_dk_filtered)
    /\ pc' = "merge"
    /\ UNCHANGED <<call, ret, df_strikes, df_distance_data, pp_fetch, df_dk,
                   df_dk_filtered, ordered_dk_fighters, df_distance_yes, merged, result>>

\* Lines 268-274: pd.merge(df_pp, df_dk_filtered, left_on="dk_match_name",
\* right_on="fighter_clean", how="left").  A left row without a partner keeps
\* one row, its right-hand cells NaN; fighter_clean of the two sides becomes
\* fighter_clean_x and fighter_clean_y.
joined_row(l, fighter, clean_y, label, line, odds) ==
    [fighter |-> fighter, Player |-> l.Player, Line |-> l.Line,
     fighter_clean_x |-> l.fighter_clean, dk_match_name |-> l.dk_match_name,
     fighter_clean_y |-> clean_y, label |-> label, line |-> line, odds |-> odds,
     PP_Line |-> NaN, DK_Line |-> NaN, Difference |-> NaN, Best_Bet |-> "",
     Going_Distance |-> NoneCell]

joined_rows(l, right) ==
    LET partners == SelectSeq(right.rows, LAMBDA r : r.fighter_clean = l.dk_match_name)
    IN IF Len(partners) = 0
       THEN <<joined_row(l, NaNStr, NaNStr, "", NaN, NaN)>>
       ELSE [k \in 1..Len(partners) |->
               joined_row(l, partners[k].fighter, partners[k].fighter_clean,
                          partners[k].label, partners[k].line, partners[k].odds)]

Suffixed(columns, other, suffix) ==
    [i \in 1..Len(columns) |->
        IF columns[i] = "fighter_clean" THEN suffix ELSE columns[i]]

left_merge(left, right) ==
    Frame(Suffixed(left.columns, right, "fighter_clean_x")
              \o Suffixed(right.columns, left, "fighter_clean_y"),
          FoldLeft(LAMBDA acc, l : acc \o joined_rows(l, right), <<>>, left.rows))

\* Lines 278-282: drop DK's "fighter" and rename "Player" to "fighter"
renamed(df) ==
    Frame([i \in 1..Len(SelectSeq(df.columns, LAMBDA c : c # "fighter")) |->
              LET c == SelectSeq(df.columns, LAMBDA d : d # "fighter")[i]
              IN IF c = "Player" THEN "fighter" ELSE c],
          [i \in 1..Len(df.rows) |-> [df.rows[i] EXCEPT !.fighter = df.rows[i].Player]])

\* Line 287 kept as the last row of each name instead of the first
first_per_player_last(df) ==
    Frame(df.columns,
          DropDuplicatesKeepLast(df.rows,
                                 [i \in 1..Len(df.rows) |-> df.rows[i].fighter_clean_x]))

\* Line 287: drop_duplicates(subset=['fighter_clean_x'])
first_per_player(df) ==
    Frame(df.columns,
          DropDuplicates(df.rows, [i \in 1..Len(df.rows) |-> df.rows[i].fighter_clean_x]))

MergeFrames ==
    /\ pc = "merge"
    /\ merged' = first_per_player(renamed(left_merge(df_pp, df_dk_filtered)))
    /\ pc' = "calculate"
    /\ UNCHANGED <<call, ret, df_strikes, df_distance_data, pp_fetch, df_pp, df_dk,
                   df_dk_filtered, ordered_dk_fighters, df_distance_yes, result>>

\* Line 293: PP Line - DK Line, NaN when either is
difference(pp_line, dk_line) ==
    IF notna(pp_line) /\ notna(dk_line) THEN Num(pp_line.n - dk_line.n) ELSE NaN

\* Lines 294-296
best_bet(x) ==
    IF notna(x) /\ x.n > 0 THEN "over"
    ELSE IF notna(x) THEN "under"
    ELSE ""

\* Lines 291-296
calculated(df) ==
    Frame(df.columns \o <<"PP Line", "DK Line", "Difference (PP-DK)", "Best Bet (DK)">>,
          [i \in 1..Len(df.rows) |->
             LET r == df.rows[i]
                 pp == to_numeric(r.Line)
                 dk == to_numeric(r.line)
             IN [r EXCEPT !.PP_Line = pp, !.DK_Line = dk,
                          !.Difference = difference(pp, dk),
                          !.Best_Bet = best_bet(difference(pp, dk))]])

CalculateColumns ==
    /\ pc = "calculate"
    /\ HasColumn(merged, "line")
    /\ merged' = calculated(merged)
    /\ pc' = "distance"
    /\ UNCHANGED <<call, ret, df_strikes, df_distance_data, pp_fetch, df_pp, df_dk,
                   df_dk_filtered, ordered_dk_fighters, df_distance_yes, result>>

\* Line 292 when the primary bucket brought no "line" column: merged["line"] raises.
CalculateColumnsRaises ==
    /\ pc = "calculate"
    /\ ~HasColumn(merged, "line")
    /\ result' = Raised("KeyError")
    /\ pc' = "done"
    /\ UNCHANGED <<call, ret, df_strikes, df_distance_data, pp_fetch, df_pp, df_dk,
                   df_dk_filtered, ordered_dk_fighters, df_distance_yes, merged>>

\* Lines 302-314
with_going_distance(df, distance_df) ==
    Frame(df.columns \o <<"Going Distance", "Actual", "Between Lines",
                          "PP Bet Correct", "DK Bet Correct">>,
          [i \in 1..Len(df.rows) |->
             [df.rows[i] EXCEPT !.Going_Distance =
                 map_distance_odds(df.rows[i].fighter, distance_df, "clean_name")]])

MapGoingDistance ==
    /\ pc = "distance"
    /\ merged' = with_going_distance(merged, df_distance_yes)
    /\ pc' = "sort"
    /\ UNCHANGED <<call, ret, df_strikes, df_distance_data, pp_fetch, df_pp, df_dk,
                   df_dk_filtered, ordered_dk_fighters, df_distance_yes, result>>

\* Lines 318-322: the category code of a name, 0 for a name outside the categories
category_code(name, categories) ==
    IF \E i \in 1..Len(categories) : categories[i] = name
    THEN MinOf({i \in 1..Len(categories) : categories[i] = name})
    ELSE 0

\* Line 323 left out: the rows stay in the order of the join
sorted_by_category_skipped(df, categories) == df

\* Line 323: sort_values on the categorical column.  Rows come in the order of
\* their codes, rows without a category last, rows of one code in the order
\* they had (the sort numpy runs on fewer than 17 rows is an insertion sort).
sorted_by_category(df, categories) ==
    LET code(r) == category_code(r.fighter_clean_y, categories)
        codes == [i \in 1..Len(categories) |-> i] \o <<0>>
    IN Frame(df.columns,
             FoldLeft(LAMBDA acc, c : acc \o SelectSeq(df.rows, LAMBDA r : code(r) = c),
                      <<>>, codes))

Resort ==
    /\ pc = "sort"
    /\ merged' = sorted_by_category(merged, ordered_dk_fighters)
    /\ pc' = "final"
    /\ UNCHANGED <<call, ret, df_strikes, df_distance_data, pp_fetch, df_pp, df_dk,
                   df_dk_filtered, ordered_dk_fighters, df_distance_yes, result>>

\* Line 336: the output columns of a row (the four annotation columns are "")
final_row(r) ==
    [fighter |-> r.fighter, PP_Line |-> r.PP_Line, DK_Line |-> r.DK_Line,
     Difference |-> r.Difference, Best_Bet |-> r.Best_Bet,
     Going_Distance |-> r.Going_Distance]

\* Line 353 left out
final_df_unfiltered(df) ==
    Frame(SelectSeq(final_cols, LAMBDA c : HasColumn(df, c)),
          [i \in 1..Len(df.rows) |-> final_row(df.rows[i])])

\* Lines 331-356
final_df(df) ==
    Frame(SelectSeq(final_cols, LAMBDA c : HasColumn(df, c)),
          LET kept == SelectSeq(df.rows, LAMBDA r : notna(r.DK_Line))
          IN [i \in 1..Len(kept) |-> final_row(kept[i])])

FinalFilter ==
    /\ pc = "final"
    /\ result' = Returned(final_df(merged))
    /\ pc' = "done"
    /\ UNCHANGED <<call, ret, df_strikes, df_distance_data, pp_fetch, df_pp, df_dk,
                   df_dk_filtered, ordered_dk_fighters, df_distance_yes, merged>>

(***************************************************************************)
(* Calls of map_distance_odds on a secondary bucket built as lines 192-217 *)
(* build it.                                                               *)
(***************************************************************************)
MaxBucket == 3       \* most rows of the secondary-market relation given to the bucket

\* parse_distance (scrape_mma_dk.py lines 90-95); a selection without
\* displayOdds has odds None
DistanceCallRows ==
    LET fights == {r_fight, <<"A","l"," ","J","o","n","e","s"," ","v","s"," ","Z","e","d"," ","L","e","e">>}
    IN {[fighter |-> NaNStr, fight |-> f, market_type |-> "Fight to Go the Distance",
         label |-> "Yes", line |-> NaN, odds |-> o] :
            f \in fights, o \in {Num(-150), Num(120), NoneCell}}
       \cup
       {[fighter |-> NaNStr, fight |-> f, market_type |-> "Fight to Go the Distance",
         label |-> "No", line |-> NaN, odds |-> Num(-200)] : f \in fights}

InitDistance ==
    /\ pc = "bucket"
    /\ call \in {[fn |-> "map_distance_odds", arg |-> s] :
                    s \in {r_Jon_dash_Jones, r_Al_Bo, <<"A","l"," ","J","o","n","e","s">>, <<"Z","e","d">>, <<"Q","q">>, None}}
    /\ ret = NoRet
    /\ df_distance_data \in FramesOf(DistanceCallRows, distance_columns, MaxBucket)
    /\ df_distance_yes = NoFrame
    /\ df_strikes = Frame(strikes_columns,
                          <<[fighter |-> r_Al_Bo, fight |-> NaNStr,
                             market_type |-> "Significant Strikes O/U",
                             label |-> "Over", line |-> Num(3), odds |-> Num(-110)]>>)
    /\ pp_fetch = "pending"
    /\ df_pp = NoFrame /\ df_dk = NoFrame /\ df_dk_filtered = NoFrame
    /\ ordered_dk_fighters = <<>>
    /\ merged = NoFrame /\ result = NoResult

\* Lines 192-217: the secondary bucket, beside a primary relation of one row.
BuildDistanceBucket ==
    /\ pc = "bucket"
    /\ df_dk' = dk_with_clean(df_strikes, df_distance_data)
    /\ df_distance_yes' = distance_yes(dk_with_clean(df_strikes, df_distance_data))
    /\ pc' = "call"
    /\ UNCHANGED <<call, ret, df_strikes, df_distance_data, pp_fetch, df_pp,
                   df_dk_filtered, ordered_dk_fighters, merged, result>>

\* Lines 304-307: one element of going_distance_values.
CallMapDistanceOdds ==
    /\ pc = "call" /\ call.fn = "map_distance_odds"
    /\ ret' = [set |-> TRUE,
               val |-> map_distance_odds(call.arg, df_distance_yes, "clean_name"),
               again |-> <<>>]
    /\ pc' = "returned"
    /\ UNCHANGED <<call, mergeVars>>

NextDistance ==
    \/ BuildDistanceBucket
    \/ CallMapDistanceOdds

SpecDistance == InitDistance /\ [][NextDistance]_vars

Next ==
    \/ ScrapeDraftKings
    \/ ScrapeDraftKingsFails
    \/ ScrapePrizePicks
    \/ ScrapePrizePicksEmpty
    \/ ScrapePrizePicksFails
    \/ ConcatAndClean
    \/ ConcatAndCleanRaises
    \/ FilterBuckets
    \/ ReturnWithoutPrizePicks
    \/ MatchFighters
    \/ MergeFrames
    \/ CalculateColumns
    \/ CalculateColumnsRaises
    \/ MapGoingDistance
    \/ Resort
    \/ FinalFilter

Spec == InitMerge /\ [][Next]_vars

(***************************************************************************)
(* Properties of clean_name.                                               *)
(***************************************************************************)
ReturnedFrom(fn) == pc = "returned" /\ call.fn = fn

\* C5: clean_name is idempotent: clean_name(clean_name(x)) = clean_name(x) for
\* every input x, also when a removal brings characters together that form a
\* removed substring again.
C5_CleanNameIdempotent ==
    ReturnedFrom("clean_name") => ret.again = ret.val

\* The normalisation as the prose describes it, written character by character.
RECURSIVE RemoveAll(_, _)
RemoveAll(s, old) ==
    IF s = <<>> THEN <<>>
    ELSE IF Len(old) <= Len(s) /\ SubSeq(s, 1, Len(old)) = old
         THEN RemoveAll(SubSeq(s, Len(old) + 1, Len(s)), old)
         ELSE <<Head(s)>> \o RemoveAll(Tail(s), old)

\* Every hyphen becomes a space and every period becomes `period`.
RECURSIVE MapPunctuation(_, _)
MapPunctuation(s, period) ==
    IF s = <<>> THEN <<>>
    ELSE (IF Head(s) = "-" THEN <<" ">>
          ELSE IF Head(s) = "." THEN period
          ELSE <<Head(s)>>) \o MapPunctuation(Tail(s), period)

\* No leading or trailing space, and one space for each run between two words.
RECURSIVE Squeeze(_, _)
Squeeze(s, afterSpace) ==
    IF s = <<>> THEN <<>>
    ELSE IF Head(s) = " "
         THEN (IF afterSpace \/ \A i \in 1..Len(s) : s[i] = " " THEN <<>> ELSE <<" ">>)
              \o Squeeze(Tail(s), TRUE)
         ELSE <<Head(s)>> \o Squeeze(Tail(s), FALSE)

Described(x, period) ==
    IF x \in {None, Num123} THEN <<>>
    ELSE LET lowered == [i \in 1..Len(x) |->
                            IF x[i] = "J" THEN "j" ELSE x[i]]
             r1 == RemoveAll(lowered, <<"j","r",".">>)
             r2 == RemoveAll(r1, <<"j","r">>)
             r3 == RemoveAll(r2, <<"i","i","i">>)
             r4 == RemoveAll(r3, <<"i","i">>)
             r5 == RemoveAll(r4, <<"t","h","e">>)
         IN Squeeze(MapPunctuation(r5, period), TRUE)

\* C6 as stated: clean_name returns "" for a non-string, and for a string the
\* result of lowercasing, removing "jr.", "jr", "iii", "ii", "the" in that order,
\* replacing every hyphen and every period with a space, stripping and collapsing
\* whitespace.
C6_PeriodBecomesSpace ==
    ReturnedFrom("clean_name") => ret.val = Described(call.arg, <<" ">>)

\* C6 amended: as above, except that every period is removed (not replaced with
\* a space), so that a period between two letters joins them into one token.
C6_PeriodRemoved ==
    ReturnedFrom("clean_name") => ret.val = Described(call.arg, <<>>)

\* A period between two letters: "a.a" is normalised to "aa".
C6_Witness ==
    /\ ReturnedFrom("clean_name")
    /\ call.arg = <<"a", ".", "a">>
    /\ ret.val = <<"a", "a">>

(***************************************************************************)
(* Properties of get_name_variants.                                        *)
(***************************************************************************)
\* The pairs of the nickname table as the prose lists them: <<name, nickname>>.
NicknamePairs == {
    <<s_daniel, s_dan>>, <<s_anthony, s_tony>>, <<s_william, s_will>>,
    <<s_william, s_billy>>, <<s_robert, s_rob>>, <<s_robert, s_bobby>>,
    <<s_james, s_jim>>, <<s_james, s_jimmy>>, <<s_joseph, s_joe>>,
    <<s_michael, s_mike>>, <<s_christopher, s_chris>>, <<s_jonathan, s_jon>>}

\* C7: the nickname table is applied in both directions to the first token: for
\* every listed pair, a name whose first token is either member yields, for the
\* other member, "other + remaining tokens" and, with two or more tokens,
\* "other + last token".
C7_NicknameBothWays ==
    (ReturnedFrom("get_name_variants") /\ IsStr(call.arg)) =>
        LET parts == Split(call.arg)
            variants == SeqToSet(ret.val)
        IN \A pair \in NicknamePairs : \A d \in {1, 2} :
              (parts # <<>> /\ parts[1] = pair[d]) =>
                  /\ Join(<<pair[3 - d]>> \o Tail(parts)) \in variants
                  /\ Len(parts) >= 2 =>
                        (pair[3 - d] \o <<" ">> \o parts[Len(parts)]) \in variants

(***************************************************************************)
(* Properties of find_best_match.                                          *)
(***************************************************************************)
\* The (variant, scorer, candidate) triples in the order the loops meet them:
\* variants, then scorers, then the pool.
Triples(name, pool) ==
    LET vs == get_name_variants(name)
        ns == Len(scorers)
        np == Len(pool)
    IN [n \in 1..(Len(vs) * ns * np) |->
           [variant |-> vs[((n - 1) \div (ns * np)) + 1],
            scorer |-> scorers[(((n - 1) \div np) % ns) + 1],
            candidate |-> pool[((n - 1) % np) + 1]]]

\* The score of each triple
TripleScores(name, pool) ==
    LET ts == Triples(name, pool)
    IN SubSeq([n \in 1..Len(ts) |-> Score(ts[n].scorer, ts[n].variant, ts[n].candidate)],
              1, Len(ts))

PoolAbsent(pool) == pool = NoChoices \/ Len(pool) = 0

\* C3: find_best_match returns None exactly when the pool is empty or absent or
\* the highest score over all triples is below the cutoff; otherwise, for every
\* cutoff including 0, it returns the best-scoring candidate.
C3_NoneIffBelowCutoff ==
    ReturnedFrom("find_best_match") =>
        LET a == call.arg
        IN IF PoolAbsent(a.choices_list) THEN ret.val = None
           ELSE LET ts == Triples(a.name, a.choices_list)
                    sc == TripleScores(a.name, a.choices_list)
                    top == MaxOf(SeqToSet(sc))
                IN IF top < a.score_cutoff THEN ret.val = None
                   ELSE \E n \in 1..Len(ts) : sc[n] = top /\ ret.val = ts[n].candidate

Finished == pc = "done" /\ result.kind = "returned"

\* The rows of a relation as a set of indices
Rows(df) == 1..Len(df.rows)

\* The output rows of the subject with normalized name n
OutputRowsOf(n) == {i \in Rows(result.frame) : clean_name(result.frame.rows[i].fighter) = n}

\* The primary-bucket rows joined to a source-B row
Partners(p) == SelectSeq(df_dk_filtered.rows, LAMBDA d : d.fighter_clean = p.dk_match_name)

\* The first source-B row of each normalized name that two or more rows share
FirstOfShared ==
    {i \in Rows(df_pp) :
        /\ \A j \in 1..(i - 1) : df_pp.rows[j].fighter_clean # df_pp.rows[i].fighter_clean
        /\ \E j \in (i + 1)..Len(df_pp.rows) :
              df_pp.rows[j].fighter_clean = df_pp.rows[i].fighter_clean}

\* Exactly one output row for the subject of source-B row p, built from p
OneRowBuiltFrom(p) ==
    /\ Cardinality(OutputRowsOf(p.fighter_clean)) = 1
    /\ \A i \in OutputRowsOf(p.fighter_clean) :
          /\ result.frame.rows[i].fighter = p.Player
          /\ result.frame.rows[i].PP_Line = (IF p.Line.k = "num" THEN p.Line ELSE NaN)

NoTwoRowsOfOneName ==
    \A i, j \in Rows(result.frame) :
        i # j => clean_name(result.frame.rows[i].fighter)
                    # clean_name(result.frame.rows[j].fighter)

\* C1 as stated: the output never holds two rows of one normalized source-B
\* name, and a name shared by several source-B rows that matches some
\* primary-bucket row with a numeric line has exactly one output row, built
\* from the first of those source-B rows.
C1_OneRowWhenSomeLineNumeric ==
    Finished =>
        /\ NoTwoRowsOfOneName
        /\ \A i \in FirstOfShared :
              (\E k \in 1..Len(Partners(df_pp.rows[i])) :
                   Partners(df_pp.rows[i])[k].line.k = "num")
              => OneRowBuiltFrom(df_pp.rows[i])

\* C1: the output never holds two rows of one normalized source-B name, and a
\* name shared by several source-B rows whose match has a numeric line in its
\* first primary-bucket row has exactly one output row, built from the first
\* of those source-B rows.
C1_OneRowWhenFirstLineNumeric ==
    Finished =>
        /\ NoTwoRowsOfOneName
        /\ \A i \in FirstOfShared :
              (/\ Len(Partners(df_pp.rows[i])) > 0
               /\ Partners(df_pp.rows[i])[1].line.k = "num")
              => OneRowBuiltFrom(df_pp.rows[i])

\* Two source-B rows, spelled differently, of one normalized name, and the one
\* output row carries the spelling of the first.
C1_Witness ==
    /\ Finished
    /\ Len(df_pp.rows) = 2
    /\ df_pp.rows[1].fighter_clean = df_pp.rows[2].fighter_clean
    /\ df_pp.rows[1].Player # df_pp.rows[2].Player
    /\ df_pp.rows[1].Line # df_pp.rows[2].Line
    /\ Len(result.frame.rows) = 1
    /\ result.frame.rows[1].fighter = df_pp.rows[1].Player

\* C2: every output row has a numeric DK Line and the name of a source-B row;
\* a source-B subject without a match, or whose joined primary line is not a
\* number, has no output row.
C2_EveryRowHasNumericLine ==
    Finished =>
        /\ \A i \in Rows(result.frame) :
              /\ result.frame.rows[i].DK_Line.k = "num"
              /\ \E j \in Rows(df_pp) : df_pp.rows[j].Player = result.frame.rows[i].fighter
        /\ \A j \in Rows(df_pp) :
              df_pp.rows[j].dk_match_name = None
              => OutputRowsOf(df_pp.rows[j].fighter_clean) = {}
        /\ \A j \in Rows(df_pp) :
              (/\ \A h \in 1..(j - 1) :
                     df_pp.rows[h].fighter_clean # df_pp.rows[j].fighter_clean
               /\ Len(Partners(df_pp.rows[j])) > 0
               /\ Partners(df_pp.rows[j])[1].line.k # "num")
              => OutputRowsOf(df_pp.rows[j].fighter_clean) = {}

\* Two source-B subjects, one matched to a numeric line and one without a
\* match, and one output row.
C2_Witness ==
    /\ Finished
    /\ Len(df_pp.rows) = 2
    /\ df_pp.rows[1].dk_match_name # None
    /\ df_pp.rows[2].dk_match_name = None
    /\ Len(result.frame.rows) = 1
    /\ result.frame.rows[1].fighter = df_pp.rows[1].Player

C9_EmptySourceANeverRaises ==
    (/\ pc = "done" /\ pp_fetch = "returned" /\ ~IsEmpty(df_pp)
     /\ (IsEmpty(df_strikes) \/ IsEmpty(df_distance_data)))
    => /\ result.kind = "returned"
       /\ result.frame.columns = final_cols
       /\ IsEmpty(df_strikes) => result.frame.rows = <<>>
       /\ \A i \in Rows(result.frame) : result.frame.rows[i].Going_Distance = NoneCell

\* The derived fields of one joined row, from its two raw lines
DerivedAsDescribed(r) ==
    LET pp == IF r.Line.k = "num" THEN r.Line.n ELSE 0
        dk == IF r.line.k = "num" THEN r.line.n ELSE 0
        both == r.Line.k = "num" /\ r.line.k = "num"
    IN /\ r.PP_Line = (IF r.Line.k = "num" THEN [k |-> "num", n |-> pp] ELSE NaN)
       /\ r.DK_Line = (IF r.line.k = "num" THEN [k |-> "num", n |-> dk] ELSE NaN)
       /\ r.Difference = (IF both THEN [k |-> "num", n |-> pp - dk] ELSE NaN)
       /\ r.Best_Bet = (IF both /\ pp - dk > 0 THEN "over"
                        ELSE IF both THEN "under"
                        ELSE "")

\* Once the join has produced rows and lines 291-296 have run
Calculated == HasColumn(merged, "Best Bet (DK)")

DerivedFieldsHold ==
    Calculated => \A i \in Rows(merged) : DerivedAsDescribed(merged.rows[i])

\* C10: for every row after the join the two lines are coerced to numbers
\* without raising, what is no number becoming absent; the difference is the
\* source-B line minus the source-A line where both are present; the
\* recommendation is "over" above 0, "under" at or below 0, empty without a
\* difference.
C10_LinesCoercedNeverRaising ==
    /\ DerivedFieldsHold
    /\ (pc = "done" /\ Len(merged.rows) > 0) => result.kind = "returned"

(***************************************************************************)
(* Properties of the order of the output.                                  *)
(***************************************************************************)
\* The primary-bucket name matched to an output row: dk_match_name of the
\* source-B rows that carry the row's fighter
MatchedName(r) ==
    df_pp.rows[CHOOSE j \in Rows(df_pp) : df_pp.rows[j].Player = r.fighter].dk_match_name

\* Where a name first appears in the captured source-A ordering
CapturedPosition(n) ==
    MinOf({k \in 1..Len(ordered_dk_fighters) : ordered_dk_fighters[k] = n})

\* C11: the output rows follow the source-A ordering captured before matching:
\* of two output rows, the earlier one's matched primary name appears no later
\* in ordered_dk_fighters than the later one's, whatever the order of source B.
C11_OutputFollowsCapturedOrder ==
    Finished =>
        \A i, j \in Rows(result.frame) :
            i < j => /\ \E k \in 1..Len(ordered_dk_fighters) :
                           ordered_dk_fighters[k] = MatchedName(result.frame.rows[i])
                     /\ CapturedPosition(MatchedName(result.frame.rows[i]))
                           <= CapturedPosition(MatchedName(result.frame.rows[j]))

\* Two output rows of different primary names that source B listed the other
\* way round.
C11_Witness ==
    /\ Finished
    /\ Len(result.frame.rows) = 2
    /\ Len(df_pp.rows) = 2
    /\ result.frame.rows[1].fighter = df_pp.rows[2].Player
    /\ result.frame.rows[2].fighter = df_pp.rows[1].Player
    /\ df_pp.rows[1].dk_match_name # df_pp.rows[2].dk_match_name
    /\ CapturedPosition(df_pp.rows[2].dk_match_name)
          < CapturedPosition(df_pp.rows[1].dk_match_name)

(***************************************************************************)
(* Properties of map_distance_odds.                                        *)
(***************************************************************************)
\* The rows of the secondary-market relation that make the bucket: label
\* "yes", first of their fight
BucketRows ==
    {i \in Rows(df_distance_data) :
        /\ LabelLower(df_distance_data.rows[i].label) = "yes"
        /\ \A j \in 1..(i - 1) :
              LabelLower(df_distance_data.rows[j].label) = "yes"
              => df_distance_data.rows[j].fight # df_distance_data.rows[i].fight}

\* Tokens the subject shares with the fight name of row i
Overlap(i) ==
    Cardinality(SeqToSet(Split(clean_name(call.arg)))
                \cap SeqToSet(Split(clean_name(df_distance_data.rows[i].fight))))

\* The first bucket row of the largest overlap
Winner ==
    MinOf({i \in BucketRows : \A j \in BucketRows : Overlap(j) <= Overlap(i)})

NothingShared == \A i \in BucketRows : Overlap(i) = 0

\* The odds of the first bucket row of the largest overlap, nothing when no
\* row shares a token
WinnerOddsReturned ==
    IF NothingShared THEN ret.val = NoneCell
    ELSE ret.val = df_distance_data.rows[Winner].odds

\* C12 as stated: the odds returned are those of the first bucket row of the
\* largest token overlap, and they are absent exactly when no bucket row
\* shares a token with the subject or the bucket has no rows.
C12_AbsentOnlyWithoutOverlap ==
    ReturnedFrom("map_distance_odds") =>
        /\ WinnerOddsReturned
        /\ (ret.val.k # "num") <=> NothingShared

\* C12: the odds returned are those of the first bucket row of the largest
\* token overlap, one shared token being enough; they are absent exactly when
\* no bucket row shares a token with the subject, the bucket has no rows, or
\* that row itself has no odds.
C12_OddsOfFirstLargestOverlap ==
    ReturnedFrom("map_distance_odds") =>
        /\ WinnerOddsReturned
        /\ (ret.val.k # "num") <=>
              (NothingShared \/ df_distance_data.rows[Winner].odds.k # "num")

\* Two bucket rows share equally many tokens with the subject, a later one
\* with other odds, and the odds of the first are returned.
C12_Witness ==
    /\ ReturnedFrom("map_distance_odds")
    /\ ~NothingShared
    /\ \E j \in BucketRows :
          /\ j > Winner
          /\ Overlap(j) = Overlap(Winner)
          /\ df_distance_data.rows[j].odds # df_distance_data.rows[Winner].odds
    /\ ret.val = df_distance_data.rows[Winner].odds
    /\ ret.val.k = "num"

\* C13: each primary-bucket subject is in at most one output row: no two
\* output rows are joined to the same primary-bucket normalized name, also
\* when two different source-B names both match it.
C13_PrimarySubjectInOneRow ==
    Finished =>
        \A i, j \in Rows(result.frame) :
            i # j => MatchedName(result.frame.rows[i]) # MatchedName(result.frame.rows[j])

====
